---- MODULE Spec2Model ----
(***************************************************************************)
(* Model of the streaming Top-K job TopKWindowedAggregator                 *)
(* (src/unnamed/part_001).                                                 *)
(*                                                                         *)
(* main() builds the pipeline                                              *)
(*   socket lines -> map(item -> (item, 1)) -> keyBy(f0)                   *)
(*     -> window(SlidingProcessingTimeWindows.of(1 min, 5 s))              *)
(*     -> process(new TopKWindowedAggregator()) -> print                   *)
(* and process() counts the elements of one keyed window, keeps the K      *)
(* largest counts with a java.util.PriorityQueue and emits them as a       *)
(* LinkedHashMap.                                                          *)
(*                                                                         *)
(* Time is processing time in whole seconds.  A keyed window               *)
(* <<key, start>> holds the elements buffered for item `key` in the        *)
(* window [start, start + WindowSize).  Item ids are 1..NumKeys, ordered   *)
(* as their strings are ordered lexicographically ("a" < "b" < "c" ...).   *)
(***************************************************************************)
EXTENDS Integers, Sequences, FiniteSets, Bags, TLC

\* ---- program constants -------------------------------------------------
K == 5
WindowSize == 60
WindowSlide == 5

\* ---- bounds of the model -----------------------------------------------
NumKeys == 2
MaxTime == 10
MaxEvents == 2
MaxEntries == 4
MaxK == 3
MaxCount == 2
NumShort == 3
MaxRequests == 4
NumSockets == 3
MaxMessages == 2

Keys == 1..NumKeys

\* The empty line: socketTextStream hands it on as the item id "".
EmptyKey == 0

\* What a line read from the socket can be.
Lines == {EmptyKey} \cup Keys

VARIABLES
    now,          \* the processing-time clock of the job, in seconds
    windowState,  \* <<key, start>> -> elements buffered for that keyed window
    out,          \* bag of the records handed to the sink by out.collect
    ingested,     \* bag of <<item, time>>: the lines read from the socket so far
    ticks,        \* number of timer callbacks that have run
    countsIn,     \* Top-K scan: the map `counts` the scan iterates over
    kIn,          \* Top-K scan: the capacity the scan runs with
    scanned,      \* Top-K scan: the keys whose entries the loop has visited
    heap,         \* Top-K scan: the PriorityQueue's backing array
    topK,         \* Top-K scan: the emitted result (LinkedHashMap order)
    pcSel,        \* Top-K scan: "idle" | "scan" | "done"
    urlMap,       \* redirect service: shortUrl -> longUrl (the Map of line 10)
    issued,       \* redirect service: the <<shortUrl, longUrl>> pairs answered by shorten
    req,          \* redirect service: the request handled last
    resp,         \* redirect service: the response to it
    nReq,         \* redirect service: number of requests handled
    spinning,     \* redirect service: the do-while of shorten cannot terminate
    readyState,   \* relay: socket -> "NEW" | "OPEN" | "CLOSING" | "CLOSED"
    roomParam,    \* relay: socket -> the ?room= value of its connection request
    roomId,       \* relay: socket -> the roomId captured by its connection handler
    rooms,        \* relay: roomId -> set of sockets (the Map of line 5)
    sent,         \* relay: the sockets client.send was called on by the last message
    sender,       \* relay: the socket whose message was handled last
    nMsg,         \* relay: number of message events handled
    crashed       \* relay: a handler dereferenced rooms.get(roomId) === undefined

aggVars == <<now, windowState, out, ingested, ticks>>
selVars == <<countsIn, kIn, scanned, heap, topK, pcSel>>
urlVars == <<urlMap, issued, req, resp, nReq, spinning>>
relayVars == <<readyState, roomParam, roomId, rooms, sent, sender, nMsg, crashed>>
vars == <<now, windowState, out, ingested, ticks, countsIn, kIn, scanned, heap, topK, pcSel,
          urlMap, issued, req, resp, nReq, spinning,
          readyState, roomParam, roomId, rooms, sent, sender, nMsg, crashed>>

\* ---- helpers -----------------------------------------------------------
Min(a, b) == IF a < b THEN a ELSE b

\* ---- java.util.PriorityQueue with Comparator.comparingInt(getValue) -----
\* An entry is <<key, count>>; the queue is the backing array, 1-based.
RECURSIVE siftUp(_, _, _)
siftUp(q, k, x) ==
    IF k > 1 /\ x[2] < q[k \div 2][2]
    THEN siftUp([q EXCEPT ![k] = q[k \div 2]], k \div 2, x)
    ELSE [q EXCEPT ![k] = x]

offer(q, e) == siftUp(Append(q, e), Len(q) + 1, e)

RECURSIVE siftDown(_, _, _)
siftDown(q, k, x) ==
    IF k <= Len(q) \div 2
    THEN LET l == 2 * k
             c == IF l + 1 <= Len(q) /\ q[l][2] > q[l + 1][2] THEN l + 1 ELSE l
         IN  IF x[2] <= q[c][2]
             THEN [q EXCEPT ![k] = x]
             ELSE siftDown([q EXCEPT ![k] = q[c]], c, x)
    ELSE [q EXCEPT ![k] = x]

\* Variant of poll: the entry at the end of the array is dropped, not the head.
pollLast(q) == SubSeq(q, 1, Len(q) - 1)

poll(q) ==
    IF Len(q) <= 1 THEN <<>>
    ELSE siftDown(SubSeq(q, 1, Len(q) - 1), 1, q[Len(q)])

\* Variant of scanEntry: the capacity test written as size() >= K.
scanEntryAtCapacity(q, e, k) ==
    LET q1 == offer(q, e)
    IN  IF Len(q1) >= k THEN poll(q1) ELSE q1

\* One iteration of the scan: heap.offer(entry); if (heap.size() > K) heap.poll()
scanEntry(q, e, k) ==
    LET q1 == offer(q, e)
    IN  IF Len(q1) > k THEN poll(q1) ELSE q1

RECURSIVE scanAll(_, _, _)
scanAll(q, es, k) ==
    IF es = <<>> THEN q ELSE scanAll(scanEntry(q, es[1], k), Tail(es), k)

\* topK.sort((a, b) -> b.getValue().compareTo(a.getValue())): List.sort is a
\* stable sort, so equal counts keep the order of the heap's array.
RECURSIVE insertDesc(_, _)
insertDesc(sorted, e) ==
    IF sorted = <<>> THEN <<e>>
    ELSE IF sorted[Len(sorted)][2] >= e[2] THEN Append(sorted, e)
    ELSE Append(insertDesc(SubSeq(sorted, 1, Len(sorted) - 1), e), sorted[Len(sorted)])

\* Variant of sortDesc: the comparator's operands swapped (ascending order).
RECURSIVE insertAsc(_, _)
insertAsc(sorted, e) ==
    IF sorted = <<>> THEN <<e>>
    ELSE IF sorted[Len(sorted)][2] <= e[2] THEN Append(sorted, e)
    ELSE Append(insertAsc(SubSeq(sorted, 1, Len(sorted) - 1), e), sorted[Len(sorted)])

RECURSIVE sortAsc(_)
sortAsc(list) ==
    IF list = <<>> THEN <<>>
    ELSE insertAsc(sortAsc(SubSeq(list, 1, Len(list) - 1)), list[Len(list)])

RECURSIVE sortDesc(_)
sortDesc(list) ==
    IF list = <<>> THEN <<>>
    ELSE insertDesc(sortDesc(SubSeq(list, 1, Len(list) - 1)), list[Len(list)])

\* Steps 2 and 3 of process(): the entries, in iteration order, to the result.
selectTopK(es, k) == sortDesc(scanAll(<<>>, es, k))

\* ---- process(), step 1 ---------------------------------------------------
\* Variant of countViews: counts.put(e.f0, e.f1), the old count not read.
RECURSIVE countViewsOverwrite(_)
countViewsOverwrite(elements) ==
    IF elements = <<>> THEN [x \in {} |-> 0]
    ELSE LET c == countViewsOverwrite(SubSeq(elements, 1, Len(elements) - 1))
             e == elements[Len(elements)]
         IN  [x \in DOMAIN c \cup {e[1]} |-> IF x = e[1] THEN e[2] ELSE c[x]]

\* counts.put(e.f0, counts.getOrDefault(e.f0, 0) + e.f1) over the elements
RECURSIVE countViews(_)
countViews(elements) ==
    IF elements = <<>> THEN [x \in {} |-> 0]
    ELSE LET c == countViews(SubSeq(elements, 1, Len(elements) - 1))
             e == elements[Len(elements)]
             old == IF e[1] \in DOMAIN c THEN c[e[1]] ELSE 0
         IN  [x \in DOMAIN c \cup {e[1]} |-> IF x = e[1] THEN old + e[2] ELSE c[x]]

\* counts.entrySet(): every element of one keyed window carries the window's
\* key, so the map has one entry; a HashMap of single-character ids iterates
\* in ascending hash, which is ascending id.
RECURSIVE entrySet(_)
entrySet(counts) ==
    IF DOMAIN counts = {} THEN <<>>
    ELSE LET x == CHOOSE y \in DOMAIN counts : \A z \in DOMAIN counts : y <= z
         IN  <<<<x, counts[x]>>>> \o entrySet([y \in DOMAIN counts \ {x} |-> counts[y]])

process(elements) == selectTopK(entrySet(countViews(elements)), K)

\* ---- the windowed pipeline of main() -------------------------------------
\* input.map(item -> new Tuple2<>(item, 1))
toTuple(item) == <<item, 1>>

\* SlidingProcessingTimeWindows.of(Time.minutes(1), Time.seconds(5)): the
\* windows an element arriving at processing time `timestamp` is put into,
\* walking back from the last slide boundary while the window still covers it.
lastStart(timestamp) == timestamp - ((timestamp + WindowSlide) % WindowSlide)

\* Variant of assignWindows: the loop bound written as start >= timestamp - size.
assignWindowsInclusive(timestamp) ==
    {s \in {lastStart(timestamp) - i * WindowSlide : i \in 0..(WindowSize \div WindowSlide)} :
        s >= timestamp - WindowSize}

assignWindows(timestamp) ==
    {s \in {lastStart(timestamp) - i * WindowSlide : i \in 0..(WindowSize \div WindowSlide)} :
        s > timestamp - WindowSize}

windowEnd(start) == start + WindowSize

\* Variant of DueWindows: a window fires as soon as the clock reaches its
\* last second (end - 1), while elements of that second can still arrive.
DueWindowsEarly(time) == {w \in DOMAIN windowState : windowEnd(w[2]) - 1 <= time}

\* Variant of DueWindows: only the windows that ended within the last slide.
DueWindowsLastSlide(time) ==
    {w \in DOMAIN windowState : windowEnd(w[2]) <= time /\ windowEnd(w[2]) > time - WindowSlide}

\* The keyed windows whose end the clock has reached: their timers are due.
DueWindows(time) == {w \in DOMAIN windowState : windowEnd(w[2]) <= time}

\* What one firing hands to the sink: process() over the window's elements.
Emit(w) == [windowStart |-> w[2], windowEnd |-> windowEnd(w[2]),
            entries |-> process(windowState[w])]

\* ---- the URL redirect service (src/unnamed/part_000) -----------------------
\* Short URLs are 1..NumShort (the code draws 6 characters out of 62); a long
\* URL is a non-empty string; a request body may also carry "" or no longUrl.
ShortUrls == 1..NumShort

LongUrls == {"http://a", "http://b"}

Undefined == "<undefined>"

Falsy(x) == x \in {"", Undefined}

NoRequest == [kind |-> "none", shortUrl |-> 0, longUrl |-> Undefined]

NoResponse == [status |-> 0, shortUrl |-> 0, longUrl |-> Undefined]

\* const urlMap = new Map()
urlInit ==
    /\ urlMap = [x \in {} |-> ""]
    /\ issued = {}
    /\ req = NoRequest
    /\ resp = NoResponse
    /\ nReq = 0
    /\ spinning = FALSE

\* generateShortUrl(): any string of the short-URL space.
generateShortUrl == ShortUrls

\* Variant of uniqueShortUrl: the candidate is not checked against the map.
uniqueShortUrlUnchecked(m) == generateShortUrl

\* do { shortUrl = generateShortUrl(); } while (urlMap.has(shortUrl)): the
\* values the loop can end with.
uniqueShortUrl(m) == {s \in generateShortUrl : s \notin DOMAIN m}

\* urlMap.get(shortUrl)
getUrl(m, shortUrl) == IF shortUrl \in DOMAIN m THEN m[shortUrl] ELSE Undefined

\* Variant of getResponse: the not-found test is missing.
getResponseUnchecked(m, shortUrl) ==
    [status |-> 302, shortUrl |-> 0, longUrl |-> getUrl(m, shortUrl)]

\* The answer of GET /api/urls/:shortUrl over the map m.
getResponse(m, shortUrl) ==
    LET longUrl == getUrl(m, shortUrl)
    IN  IF Falsy(longUrl)
        THEN [status |-> 404, shortUrl |-> 0, longUrl |-> Undefined]
        ELSE [status |-> 302, shortUrl |-> 0, longUrl |-> longUrl]

\* POST /api/urls/shorten with body.longUrl = longUrl
Shorten(longUrl) ==
    /\ ~spinning
    /\ nReq < MaxRequests
    /\ nReq' = nReq + 1
    /\ req' = [kind |-> "shorten", shortUrl |-> 0, longUrl |-> longUrl]
    /\ IF Falsy(longUrl)
       THEN /\ resp' = [status |-> 400, shortUrl |-> 0, longUrl |-> Undefined]
            /\ UNCHANGED <<urlMap, issued, spinning>>
       ELSE IF uniqueShortUrl(urlMap) = {}
       THEN \* every short URL is taken: the loop never ends, no answer is sent
            /\ spinning' = TRUE
            /\ resp' = NoResponse
            /\ UNCHANGED <<urlMap, issued>>
       ELSE \E shortUrl \in uniqueShortUrl(urlMap) :
            /\ urlMap' = [x \in DOMAIN urlMap \cup {shortUrl} |->
                             IF x = shortUrl THEN longUrl ELSE urlMap[x]]
            /\ issued' = issued \cup {<<shortUrl, longUrl>>}
            /\ resp' = [status |-> 200, shortUrl |-> shortUrl, longUrl |-> longUrl]
            /\ UNCHANGED spinning
    /\ UNCHANGED <<aggVars, selVars, relayVars>>

\* GET /api/urls/:shortUrl
Get(shortUrl) ==
    /\ ~spinning
    /\ nReq < MaxRequests
    /\ nReq' = nReq + 1
    /\ req' = [kind |-> "get", shortUrl |-> shortUrl, longUrl |-> Undefined]
    /\ resp' = getResponse(urlMap, shortUrl)
    /\ UNCHANGED <<urlMap, issued, spinning>>
    /\ UNCHANGED <<aggVars, selVars, relayVars>>

\* ---- the broadcast relay (src/google-docs/websocket.js) ---------------------
Sockets == 1..NumSockets

\* url.searchParams.get('room'): null when the parameter is absent
Null == "<null>"

RoomParams == {Null, "", "room1", "lobby"}

\* const roomId = url.searchParams.get('room') || 'lobby'
roomIdOf(param) == IF param \in {Null, ""} THEN "lobby" ELSE param

\* const rooms = new Map(); no socket has connected yet
relayInit ==
    /\ readyState = [s \in Sockets |-> "NEW"]
    /\ roomParam = [s \in Sockets |-> Null]
    /\ roomId = [s \in Sockets |-> Null]
    /\ rooms = [r \in {} |-> {}]
    /\ sent = EmptyBag
    /\ sender = 0
    /\ nMsg = 0
    /\ crashed = FALSE

\* if (!rooms.has(roomId)) rooms.set(roomId, new Set()); rooms.get(roomId).add(socket)
addSocket(rs, r, socket) ==
    [x \in DOMAIN rs \cup {r} |->
        IF x = r THEN (IF r \in DOMAIN rs THEN rs[r] ELSE {}) \cup {socket} ELSE rs[x]]

\* Variant of recipients: the test client !== socket is missing.
recipientsWithSelf(members, socket) ==
    {client \in members : readyState[client] = "OPEN"}

\* The clients the message loop calls send on.
recipients(members, socket) ==
    {client \in members : client # socket /\ readyState[client] = "OPEN"}

\* Variant of removeSocket: the room is deleted without the size test.
removeSocketAndRoom(rs, r, socket) == [x \in DOMAIN rs \ {r} |-> rs[x]]

\* rooms.get(roomId).delete(socket); if (rooms.get(roomId).size === 0) rooms.delete(roomId)
removeSocket(rs, r, socket) ==
    IF rs[r] \ {socket} = {}
    THEN [x \in DOMAIN rs \ {r} |-> rs[x]]
    ELSE [rs EXCEPT ![r] = rs[r] \ {socket}]

\* wss.on('connection'): a new socket connects with ?room=param
Connect(socket, param) ==
    /\ ~crashed
    /\ readyState[socket] = "NEW"
    /\ readyState' = [readyState EXCEPT ![socket] = "OPEN"]
    /\ roomParam' = [roomParam EXCEPT ![socket] = param]
    /\ roomId' = [roomId EXCEPT ![socket] = roomIdOf(param)]
    /\ rooms' = addSocket(rooms, roomIdOf(param), socket)
    /\ UNCHANGED <<sent, sender, nMsg, crashed>>
    /\ UNCHANGED <<aggVars, selVars, urlVars>>

\* The closing handshake of a socket starts: it is no longer OPEN, its
\* 'close' event has not been emitted yet.
BeginClose(socket) ==
    /\ ~crashed
    /\ readyState[socket] = "OPEN"
    /\ readyState' = [readyState EXCEPT ![socket] = "CLOSING"]
    /\ UNCHANGED <<roomParam, roomId, rooms, sent, sender, nMsg, crashed>>
    /\ UNCHANGED <<aggVars, selVars, urlVars>>

\* socket.on('message'): a frame of a connected socket arrives
Message(socket) ==
    /\ ~crashed
    /\ readyState[socket] \in {"OPEN", "CLOSING"}
    /\ nMsg < MaxMessages
    /\ nMsg' = nMsg + 1
    /\ sender' = socket
    /\ IF roomId[socket] \in DOMAIN rooms
       THEN /\ sent' = SetToBag(recipients(rooms[roomId[socket]], socket))
            /\ UNCHANGED crashed
       ELSE /\ crashed' = TRUE
            /\ sent' = EmptyBag
    /\ UNCHANGED <<readyState, roomParam, roomId, rooms>>
    /\ UNCHANGED <<aggVars, selVars, urlVars>>

\* socket.on('close'): the socket's 'close' event is emitted
Close(socket) ==
    /\ ~crashed
    /\ readyState[socket] \in {"OPEN", "CLOSING"}
    /\ readyState' = [readyState EXCEPT ![socket] = "CLOSED"]
    /\ IF roomId[socket] \in DOMAIN rooms
       THEN /\ rooms' = removeSocket(rooms, roomId[socket], socket)
            /\ UNCHANGED crashed
       ELSE /\ crashed' = TRUE
            /\ UNCHANGED rooms
    /\ UNCHANGED <<roomParam, roomId, sent, sender, nMsg>>
    /\ UNCHANGED <<aggVars, selVars, urlVars>>

Init ==
    /\ now = 0
    /\ windowState = [w \in {} |-> <<>>]
    /\ out = EmptyBag
    /\ ingested = EmptyBag
    /\ ticks = 0
    /\ countsIn = [x \in {} |-> 0]
    /\ kIn = K
    /\ scanned = {}
    /\ heap = <<>>
    /\ topK = <<>>
    /\ pcSel = "idle"
    /\ urlInit
    /\ relayInit

\* A line `item` arrives on the socket at the current processing time: it is
\* mapped to (item, 1), keyed by item and added to every window covering now.
Ingest(item) ==
    /\ BagCardinality(ingested) < MaxEvents
    /\ LET e == toTuple(item)
           ws == {<<e[1], s>> : s \in assignWindows(now)}
       IN  windowState' =
               [w \in DOMAIN windowState \cup ws |->
                   IF w \in ws
                   THEN Append(IF w \in DOMAIN windowState THEN windowState[w] ELSE <<>>, e)
                   ELSE windowState[w]]
    /\ ingested' = ingested (+) SetToBag({<<item, now>>})
    /\ UNCHANGED <<now, out, ticks>>
    /\ UNCHANGED <<selVars, urlVars, relayVars>>

\* The processing-time clock moves on by one second.
AdvanceClock ==
    /\ now < MaxTime
    /\ now' = now + 1
    /\ UNCHANGED <<windowState, out, ingested, ticks>>
    /\ UNCHANGED <<selVars, urlVars, relayVars>>

\* Variant of FireWindows: the fired windows' state is not cleared.
FireWindowsKeepState ==
    /\ DueWindows(now) # {}
    /\ out' = out (+) SetToBag({Emit(w) : w \in DueWindows(now)})
    /\ ticks' = ticks + 1
    /\ UNCHANGED <<now, ingested, windowState>>
    /\ UNCHANGED <<selVars, urlVars, relayVars>>

\* The timer callback runs: every keyed window whose end has passed is
\* handed to process(), its result collected, and its state cleared.
FireWindows ==
    /\ DueWindows(now) # {}
    /\ out' = out (+) SetToBag({Emit(w) : w \in DueWindows(now)})
    /\ windowState' = [w \in DOMAIN windowState \ DueWindows(now) |-> windowState[w]]
    /\ ticks' = ticks + 1
    /\ UNCHANGED <<now, ingested>>
    /\ UNCHANGED <<selVars, urlVars, relayVars>>

Next ==
    \/ \E item \in Lines : Ingest(item)
    \/ AdvanceClock
    \/ FireWindows

Spec == Init /\ [][Next]_vars

\* ---- the Top-K scan of process() on its own --------------------------------
\* Inputs: any map of at most MaxEntries items with counts 1..MaxCount, and a
\* capacity 1..MaxK.  The loop visits the entries in the map's iteration order,
\* which HashMap leaves unspecified: each step takes any entry not yet visited.
InitTopK ==
    /\ now = 0
    /\ windowState = [w \in {} |-> <<>>]
    /\ out = EmptyBag
    /\ ingested = EmptyBag
    /\ ticks = 0
    /\ \E d \in SUBSET (1..MaxEntries) : countsIn \in [d -> 1..MaxCount]
    /\ kIn \in 1..MaxK
    /\ scanned = {}
    /\ heap = <<>>
    /\ topK = <<>>
    /\ pcSel = "scan"
    /\ urlInit
    /\ relayInit

\* for (entry : counts.entrySet()) { heap.offer(entry); if (heap.size() > K) heap.poll(); }
ScanStep ==
    /\ pcSel = "scan"
    /\ \E x \in DOMAIN countsIn \ scanned :
        /\ heap' = scanEntry(heap, <<x, countsIn[x]>>, kIn)
        /\ scanned' = scanned \cup {x}
    /\ UNCHANGED <<countsIn, kIn, topK, pcSel>>
    /\ UNCHANGED <<aggVars, urlVars, relayVars>>

\* new ArrayList<>(heap); topK.sort(descending); copy into the LinkedHashMap
Drain ==
    /\ pcSel = "scan"
    /\ scanned = DOMAIN countsIn
    /\ topK' = sortDesc(heap)
    /\ pcSel' = "done"
    /\ UNCHANGED <<countsIn, kIn, scanned, heap>>
    /\ UNCHANGED <<aggVars, urlVars, relayVars>>

NextTopK ==
    \/ ScanStep
    \/ Drain

SpecTopK == InitTopK /\ [][NextTopK]_vars

NextUrl ==
    \/ \E longUrl \in LongUrls \cup {"", Undefined} : Shorten(longUrl)
    \/ \E shortUrl \in ShortUrls : Get(shortUrl)

SpecUrl == Init /\ [][NextUrl]_vars

NextRelay ==
    \/ \E socket \in Sockets, param \in RoomParams : Connect(socket, param)
    \/ \E socket \in Sockets : BeginClose(socket)
    \/ \E socket \in Sockets : Message(socket)
    \/ \E socket \in Sockets : Close(socket)

SpecRelay == Init /\ [][NextRelay]_vars

\* ======================================================================
\* Properties
\* ======================================================================
AllStarts == (0 - WindowSize)..MaxTime

Covers(start, t) == start % WindowSlide = 0 /\ start <= t /\ t < start + WindowSize

RECURSIVE SumOver(_, _)
SumOver(f, S) ==
    IF S = {} THEN 0
    ELSE LET x == CHOOSE y \in S : TRUE IN f[x] + SumOver(f, S \ {x})

\* Number of socket lines for `key` read while the clock was inside the window.
WindowCount(key, start) ==
    LET T == {t \in 0..MaxTime : start <= t /\ t < start + WindowSize}
    IN  SumOver([t \in T |-> CopiesIn(<<key, t>>, ingested)], T)

\* The counts of all items seen inside the window.
WindowCounts(start) ==
    [key \in {k \in Lines : WindowCount(k, start) > 0} |-> WindowCount(key, start)]

\* The entries of m ordered by count descending, then key ascending.
RECURSIVE SortedEntries(_)
SortedEntries(m) ==
    IF DOMAIN m = {} THEN <<>>
    ELSE LET x == CHOOSE y \in DOMAIN m :
                    \A z \in DOMAIN m : m[y] > m[z] \/ (m[y] = m[z] /\ y <= z)
         IN  <<<<x, m[x]>>>> \o SortedEntries([y \in DOMAIN m \ {x} |-> m[y]])

ExpectedTopK(m, k) == SubSeq(SortedEntries(m), 1, Min(Cardinality(DOMAIN m), k))

CountsOf(es) == [i \in 1..Len(es) |-> es[i][2]]

KeysOf(es) == {es[i][1] : i \in 1..Len(es)}

\* Sum of the f1 fields buffered for a keyed window under state ws.
BufferedCount(ws, w) ==
    IF w \in DOMAIN ws
    THEN SumOver([i \in 1..Len(ws[w]) |-> ws[w][i][2]], 1..Len(ws[w]))
    ELSE 0

Open(start) == \E w \in DOMAIN windowState : w[2] = start

Closed(start) == \E r \in BagToSet(out) : r.windowStart = start

DeliveriesOf(start) ==
    [r \in {q \in BagToSet(out) : q.windowStart = start} |-> CopiesIn(r, out)]

NumDeliveries(start) ==
    LET D == DeliveriesOf(start) IN SumOver(D, DOMAIN D)

\* C1: every record handed to the sink for a window holds the Top-K selection
\* over the counts of ALL items seen in that window (one aggregated snapshot,
\* ordered by count descending then key ascending).
C1_SnapshotAggregatesAllKeys ==
    \A r \in BagToSet(out) :
        r.entries = ExpectedTopK(WindowCounts(r.windowStart), K)

\* C2: ingesting an event at time t adds its weight to the count of exactly
\* the WindowSize/WindowSlide windows of its key with start % slide = 0 and
\* start <= t < start + size, and changes no other keyed window.
C2_EventCountedInCoveringWindows ==
    [][ingested' # ingested =>
        LET e == CHOOSE x \in BagToSet(ingested') :
                     CopiesIn(x, ingested') > CopiesIn(x, ingested)
            all == DOMAIN windowState \cup DOMAIN windowState'
            changed == {w \in all :
                           BufferedCount(windowState', w) # BufferedCount(windowState, w)}
            covering == {s \in AllStarts : Covers(s, e[2])}
        IN  /\ changed = {<<e[1], s>> : s \in covering}
            /\ Cardinality(changed) = WindowSize \div WindowSlide
            /\ \A w \in changed :
                   BufferedCount(windowState', w) = BufferedCount(windowState, w) + 1
            /\ DOMAIN windowState \subseteq DOMAIN windowState'
    ]_vars

C2_Witness ==
    /\ BagCardinality(ingested) = 2
    /\ \E w \in DOMAIN windowState : Len(windowState[w]) = 2
    /\ \E w \in DOMAIN windowState : Len(windowState[w]) = 1

\* C3: the result of the Top-K scan over a map with N entries and capacity k
\* has min(N, k) entries, each an entry of the map with its count, no key
\* twice, and every returned count >= every count left out (the empty map
\* gives the empty sequence, N < k gives all N entries).
C3_SelectTopKSizeAndDominance ==
    pcSel = "done" =>
        /\ Len(topK) = Min(Cardinality(DOMAIN countsIn), kIn)
        /\ \A i \in 1..Len(topK) :
               /\ topK[i][1] \in DOMAIN countsIn
               /\ topK[i][2] = countsIn[topK[i][1]]
        /\ Cardinality(KeysOf(topK)) = Len(topK)
        /\ \A x \in DOMAIN countsIn \ KeysOf(topK) :
               \A i \in 1..Len(topK) : topK[i][2] >= countsIn[x]

C3_Witness ==
    /\ pcSel = "done"
    /\ Cardinality(DOMAIN countsIn) > kIn
    /\ Len(topK) = kIn
    /\ \E x \in DOMAIN countsIn \ KeysOf(topK) : countsIn[x] < topK[Len(topK)][2]

C5_OneDeliveryPerWindow ==
    \A s \in AllStarts : Closed(s) => NumDeliveries(s) = 1

C10_SnapshotCountsAllIncrements ==
    \A r \in BagToSet(out) :
        \A i \in 1..Len(r.entries) :
            r.entries[i][2] = WindowCount(r.entries[i][1], r.windowStart)

C10_Witness ==
    \E r \in BagToSet(out) :
        /\ Len(r.entries) = 1
        /\ r.entries[1][2] = 2
        /\ \E t1, t2 \in 0..MaxTime :
               t1 < t2 /\ CopiesIn(<<r.entries[1][1], t1>>, ingested) = 1
                       /\ CopiesIn(<<r.entries[1][1], t2>>, ingested) = 1

\* C12: an event with an empty key is rejected at ingestion: it never enters
\* the window store and never shows up in a delivered record.
C12_EmptyKeyNeverStored ==
    /\ \A w \in DOMAIN windowState : w[1] # EmptyKey
    /\ \A r \in BagToSet(out) : EmptyKey \notin KeysOf(r.entries)

\* C17: after every iteration of the scan the heap holds min(k, entries
\* visited) entries, never more than k, and their counts are the largest
\* counts visited so far; the drained result is sorted by count descending.
C17_HeapBoundedAndHoldsLargest ==
    /\ pcSel \in {"scan", "done"} =>
        /\ Len(heap) <= kIn
        /\ Len(heap) = Min(kIn, Cardinality(scanned))
        /\ KeysOf(heap) \subseteq scanned
        /\ Cardinality(KeysOf(heap)) = Len(heap)
        /\ \A i \in 1..Len(heap) : heap[i][2] = countsIn[heap[i][1]]
        /\ \A x \in scanned \ KeysOf(heap) :
               \A i \in 1..Len(heap) : heap[i][2] >= countsIn[x]
    /\ pcSel = "done" =>
        \A i \in 1..(Len(topK) - 1) : topK[i][2] >= topK[i + 1][2]

C17_Witness ==
    /\ pcSel = "scan"
    /\ Cardinality(scanned) > kIn
    /\ scanned # DOMAIN countsIn
    /\ Len(heap) = kIn
    /\ kIn >= 2
    /\ \E x \in scanned \ KeysOf(heap) : \E i \in 1..Len(heap) : heap[i][2] > countsIn[x]

IssuedShortUrls == {p[1] : p \in issued}

\* C15: a GET of a short URL answered by an earlier shorten redirects to the
\* longUrl of that shorten, a GET of a short URL never issued answers 404,
\* and the stored mappings are exactly the issued ones (a GET changes none).
C15_GetRedirectsToIssuedLongUrl ==
    /\ req.kind = "get" =>
        IF req.shortUrl \in IssuedShortUrls
        THEN /\ resp.status = 302
             /\ <<req.shortUrl, resp.longUrl>> \in issued
        ELSE resp.status = 404
    /\ DOMAIN urlMap = IssuedShortUrls
    /\ \A p \in issued : urlMap[p[1]] = p[2]
    /\ \A p, q \in issued : p[1] = q[1] => p = q

C15_Witness ==
    /\ req.kind = "get"
    /\ resp.status = 302
    /\ Cardinality(issued) >= 2
    /\ resp.longUrl = "http://b"

\* C19: a successful shorten answers a short URL that was not a key of the
\* map before, stores the given longUrl under it and leaves every earlier
\* mapping as it was; a shorten without longUrl answers 400 and leaves the
\* map unchanged.
C19_ShortenNeverOverwrites ==
    [][(nReq' # nReq /\ req'.kind = "shorten") =>
        /\ Falsy(req'.longUrl) => (resp'.status = 400 /\ urlMap' = urlMap)
        /\ resp'.status = 200 =>
            /\ ~Falsy(req'.longUrl)
            /\ resp'.shortUrl \notin DOMAIN urlMap
            /\ resp'.shortUrl \notin IssuedShortUrls
            /\ DOMAIN urlMap' = DOMAIN urlMap \cup {resp'.shortUrl}
            /\ urlMap'[resp'.shortUrl] = req'.longUrl
            /\ \A x \in DOMAIN urlMap : urlMap'[x] = urlMap[x]
        /\ resp'.status \in {200, 400} \/ spinning'
    ]_vars

C19_Witness ==
    /\ req.kind = "shorten"
    /\ resp.status = 200
    /\ \E p, q \in issued : p[1] # q[1] /\ p[2] = q[2] /\ p[1] = resp.shortUrl

\* C16: a message of socket s is sent exactly once to every other socket
\* that is OPEN and was connected to the room of s, and to no one else: not
\* to s, not to a socket of another room, not to a socket that is not OPEN.
C16_BroadcastToOpenRoomMates ==
    [][nMsg' # nMsg =>
        \A c \in Sockets :
            CopiesIn(c, sent') =
                IF /\ c # sender'
                   /\ readyState[c] = "OPEN"
                   /\ roomId[c] = roomId[sender']
                THEN 1 ELSE 0
    ]_vars

C16_Witness ==
    /\ nMsg >= 1
    /\ BagCardinality(sent) = 1
    /\ \E c \in Sockets :
           /\ c # sender
           /\ readyState[c] = "OPEN"
           /\ roomId[c] # roomId[sender]
    /\ \A c \in BagToSet(sent) : readyState[c] = "OPEN" /\ roomId[c] = roomId[sender]

RoomsOf(socket) == {r \in DOMAIN rooms : socket \in rooms[r]}

\* C20: the rooms map has no empty room; a connected socket (its 'close' not
\* yet emitted) is a member of exactly one room, the one named when it
\* connected ('lobby' when none was named); a socket that has closed or never
\* connected is a member of none; no handler found its room deleted.
C20_RoomsConsistent ==
    /\ ~crashed
    /\ \A r \in DOMAIN rooms : rooms[r] # {}
    /\ \A socket \in Sockets :
           IF readyState[socket] \in {"OPEN", "CLOSING"}
           THEN /\ Cardinality(RoomsOf(socket)) = 1
                /\ roomParam[socket] \in {Null, ""} => RoomsOf(socket) = {"lobby"}
                /\ roomParam[socket] \notin {Null, ""} => RoomsOf(socket) = {roomParam[socket]}
           ELSE RoomsOf(socket) = {}

C20_Witness ==
    /\ \E socket \in Sockets : readyState[socket] = "CLOSED" /\ roomId[socket] \notin DOMAIN rooms
    /\ \E socket \in Sockets :
           /\ readyState[socket] = "OPEN"
           /\ roomParam[socket] = Null
           /\ rooms["lobby"] = {socket}
    /\ nMsg >= 1

====
